---- MODULE Spec2Model ----
(***************************************************************************)
(* Data-Stream-Counting: the three counters of src/src/algorithms          *)
(* (ExactCounter, MorrisCounter, FrequentCounter) fed the same stream of   *)
(* items, with their read operations query and get_top_n.                  *)
(*                                                                         *)
(* Spec       process, query and get_top_n calls in any order              *)
(* SpecStream process calls alone, over longer streams                     *)
(* SpecMain   main() of src/main.py: the three phases of the harness over  *)
(*            the rows DatasetLoader reads                                 *)
(*                                                                         *)
(* A Python dict is a function whose DOMAIN is the set of keys. The order  *)
(* of insertion is not kept: the only code that reads it is sorted(), and  *)
(* the sort key (-count, item) is total on distinct keys.                  *)
(***************************************************************************)
EXTENDS Integers, Sequences, FiniteSets, TLC

\* ---------------------------------------------------------------- bounds
\* longest stream fed to the counters when no read call is made (SpecStream)
MaxStream == 6
\* longest stream fed to the counters between whose items reads are made (Spec)
MaxLen == 4
\* largest capacity a FrequentCounter is constructed with
MaxCapacity == 3
\* largest n passed to get_top_n
MaxN == 3
\* resolution of random.random(): the draw d stands for d / DrawDenom in [0,1)
DrawDenom == 4

\* most rows in the dataset file (SpecMain)
MaxRows == 2
\* the configuration of main.py, scaled down: MORRIS_TRIALS is 20,
\* DISPLAY_TOP_N is 15 and FREQUENT_CAPACITIES has six values from 100 up
MORRIS_TRIALS == 2
DISPLAY_TOP_N == 2
FREQUENT_CAPACITIES == <<1, 2>>

\* item: str. One-character names; Python orders them by code point.
Items == {"A", "B", "C"}
Ord(item) == CASE item = "A" -> 65 [] item = "B" -> 66 [] item = "C" -> 67

\* capacity: int = 100 is not validated, so any int reaches __init__
CapacityInputs == (-1)..MaxCapacity
NInputs == 0..MaxN
Draws == 0..(DrawDenom - 1)

VARIABLES
    exact,      \* ExactCounter.counts    : item -> count
    morris,     \* MorrisCounter.counts   : item -> exponent k
    frequent,   \* FrequentCounter.counts : item -> count
    capacity,   \* FrequentCounter.capacity
    stream,     \* the items processed so far, in order
    ret         \* the last call and what it returned

\* main() and the loader it reads
VARIABLES
    phase,      \* where main() is: "idle" (main not run), "start", "A", "B",
                \* "C", "done", "aborted" (error printed, return), "unhandled"
    data,       \* the rows of the dataset file
    gen,        \* the generator stream_actors() of the pass: "closed" or "open"
    trial,      \* Phase B trials completed
    cap_idx,    \* Phase C capacities completed
    top_exact,  \* top_n_list of run_exact_benchmark
    morris_results,       \* name -> estimates, one per trial
    results_by_capacity,  \* cap -> the FrequentCounter's counts
    passes,     \* the passes that ran to the end of the stream: phase and items
    table1,     \* rows of [Table 1]
    table2,     \* rows of [Table 2]
    printed,    \* the error message printed, "" if none
    raised      \* the exception that left main(), "" if none

harness == <<phase, data, gen, trial, cap_idx, top_exact, morris_results,
             results_by_capacity, passes, table1, table2, printed, raised>>

vars == <<exact, morris, frequent, capacity, stream, ret, harness>>
\* the fields of the three counter objects
counters == <<exact, morris, frequent, capacity>>

\* ------------------------------------------------------------ dict helpers
\* {}
EmptyDict == [k \in {} |-> 0]
\* d.get(key, default)
dict_get(d, key, default) == IF key \in DOMAIN d THEN d[key] ELSE default
\* d[key] = value
dict_set(d, key, value) == [k \in DOMAIN d \cup {key} |-> IF k = key THEN value ELSE d[k]]
\* d.items()
dict_items(d) == {<<k, d[k]>> : k \in DOMAIN d}

\* 2 ** k
RECURSIVE Pow2(_)
Pow2(k) == IF k <= 0 THEN 1 ELSE 2 * Pow2(k - 1)

\* ------------------------------------------------------------ ExactCounter
ExactCounter_init == EmptyDict

\* (mutant) the else branch alone: the count is set to 1 on every occurrence
ExactCounter_process_reset(counts, item) == dict_set(counts, item, 1)
ExactCounter_process(counts, item) ==
    IF item \in DOMAIN counts
    THEN dict_set(counts, item, counts[item] + 1)
    ELSE dict_set(counts, item, 1)

ExactCounter_query(counts, item) == dict_get(counts, item, 0)

\* ----------------------------------------------------------- MorrisCounter
MorrisCounter_init == EmptyDict

\* random.random() < 1.0 / (2 ** k), the draw being draw / DrawDenom
RandomBelow(draw, k) == draw * Pow2(k) < DrawDenom

\* (mutant) probability 1 / 2 ** (k + 1)
MorrisCounter_process_half(counts, item, draw) ==
    LET c0 == IF item \notin DOMAIN counts THEN dict_set(counts, item, 0) ELSE counts
        k == c0[item]
    IN  IF RandomBelow(draw, k + 1) THEN dict_set(c0, item, k + 1) ELSE c0
\* (mutant) a refused draw takes one off the exponent
MorrisCounter_process_decay(counts, item, draw) ==
    LET c0 == IF item \notin DOMAIN counts THEN dict_set(counts, item, 0) ELSE counts
        k == c0[item]
    IN  IF RandomBelow(draw, k) THEN dict_set(c0, item, k + 1) ELSE dict_set(c0, item, k - 1)
MorrisCounter_process(counts, item, draw) ==
    LET c0 == IF item \notin DOMAIN counts THEN dict_set(counts, item, 0) ELSE counts
        k == c0[item]
    IN  IF RandomBelow(draw, k) THEN dict_set(c0, item, k + 1) ELSE c0

\* (mutant) 2 * k - 1: a product written for the power
MorrisCounter_query_product(counts, item) == 2 * dict_get(counts, item, 0) - 1
MorrisCounter_query(counts, item) == Pow2(dict_get(counts, item, 0)) - 1

\* --------------------------------------------------------- FrequentCounter
\* __init__ stores capacity as given and an empty dict; it raises nothing
FrequentCounter_init(cap) == [capacity |-> cap, counts |-> EmptyDict]

\* (mutant) CASE 3 adding 1 where the code subtracts 1
GlobalDecrement_plus(counts) ==
    LET dec == [k \in DOMAIN counts |-> counts[k] + 1]
        items_to_remove == {k \in DOMAIN counts : dec[k] = 0}
    IN  [k \in DOMAIN counts \ items_to_remove |-> dec[k]]
\* (mutant) CASE 3 without the second loop: nothing is deleted
GlobalDecrement_keep(counts) ==
    [k \in DOMAIN counts |-> counts[k] - 1]
\* (mutant) CASE 3 taking 2 off every counter
GlobalDecrement_twice(counts) ==
    LET dec == [k \in DOMAIN counts |-> counts[k] - 2]
        items_to_remove == {k \in DOMAIN counts : dec[k] <= 0}
    IN  [k \in DOMAIN counts \ items_to_remove |-> dec[k]]
\* CASE 3: decrement every counter, then delete those that reached 0
GlobalDecrement(counts) ==
    LET dec == [k \in DOMAIN counts |-> counts[k] - 1]
        items_to_remove == {k \in DOMAIN counts : dec[k] = 0}
    IN  [k \in DOMAIN counts \ items_to_remove |-> dec[k]]

\* (mutant) CASE 2 taken while len(self.counts) <= self.capacity
FrequentCounter_process_le(counts, cap, item) ==
    IF item \in DOMAIN counts
    THEN dict_set(counts, item, counts[item] + 1)
    ELSE IF Cardinality(DOMAIN counts) <= cap
         THEN dict_set(counts, item, 1)
         ELSE GlobalDecrement(counts)
\* (mutant) CASE 2 taken while len(self.counts) < self.capacity - 1
FrequentCounter_process_small(counts, cap, item) ==
    IF item \in DOMAIN counts
    THEN dict_set(counts, item, counts[item] + 1)
    ELSE IF Cardinality(DOMAIN counts) < cap - 1
         THEN dict_set(counts, item, 1)
         ELSE GlobalDecrement(counts)
\* (mutant) CASE 1 adding 2
FrequentCounter_process_double(counts, cap, item) ==
    IF item \in DOMAIN counts
    THEN dict_set(counts, item, counts[item] + 2)
    ELSE IF Cardinality(DOMAIN counts) < cap
         THEN dict_set(counts, item, 1)
         ELSE GlobalDecrement(counts)
\* (mutant) CASE 3 inserting the new item when the decrement has made room
FrequentCounter_process_insert(counts, cap, item) ==
    IF item \in DOMAIN counts
    THEN dict_set(counts, item, counts[item] + 1)
    ELSE IF Cardinality(DOMAIN counts) < cap
         THEN dict_set(counts, item, 1)
         ELSE LET d == GlobalDecrement(counts)
              IN  IF Cardinality(DOMAIN d) < cap THEN dict_set(d, item, 1) ELSE d
FrequentCounter_process(counts, cap, item) ==
    IF item \in DOMAIN counts
    THEN dict_set(counts, item, counts[item] + 1)
    ELSE IF Cardinality(DOMAIN counts) < cap
         THEN dict_set(counts, item, 1)
         ELSE GlobalDecrement(counts)

FrequentCounter_query(counts, item) == dict_get(counts, item, 0)

\* ------------------------------------------------------------- get_top_n
\* (mutant) key=lambda x: (x[1], x[0]): the minus sign forgotten
KeyLess_ascending(p, q) ==
    \/ p[2] < q[2]
    \/ p[2] = q[2] /\ Ord(p[1]) < Ord(q[1])
\* key=lambda x: (-x[1], x[0]), compared as Python compares tuples
KeyLess(p, q) ==
    \/ -p[2] < -q[2]
    \/ -p[2] = -q[2] /\ Ord(p[1]) < Ord(q[1])

\* sorted(pairs, key=...): the pairs in ascending key order
RECURSIVE sorted(_)
sorted(pairs) ==
    IF pairs = {} THEN << >>
    ELSE LET first == CHOOSE p \in pairs : \A q \in pairs \ {p} : KeyLess(p, q)
         IN  <<first>> \o sorted(pairs \ {first})

\* seq[:n]
SliceTo(seq, n) ==
    IF n >= 0
    THEN SubSeq(seq, 1, IF n < Len(seq) THEN n ELSE Len(seq))
    ELSE SubSeq(seq, 1, IF Len(seq) + n > 0 THEN Len(seq) + n ELSE 0)

ExactCounter_get_top_n(counts, n) == SliceTo(sorted(dict_items(counts)), n)
FrequentCounter_get_top_n(counts, n) == SliceTo(sorted(dict_items(counts)), n)
MorrisCounter_get_top_n(counts, n) ==
    LET estimated_counts == {<<actor, MorrisCounter_query(counts, actor)>> : actor \in DOMAIN counts}
    IN  SliceTo(sorted(estimated_counts), n)

\* ---------------------------------------------------------------- actions
\* main() is not running: the counters are driven directly
HarnessIdle ==
    /\ phase = "idle" /\ data = << >> /\ gen = "closed"
    /\ trial = 0 /\ cap_idx = 0
    /\ top_exact = << >> /\ morris_results = EmptyDict
    /\ results_by_capacity = EmptyDict
    /\ passes = << >> /\ table1 = << >> /\ table2 = << >>
    /\ printed = "" /\ raised = ""

Init ==
    /\ exact = ExactCounter_init
    /\ morris = MorrisCounter_init
    /\ \E cap \in CapacityInputs :
          /\ capacity = FrequentCounter_init(cap).capacity
          /\ frequent = FrequentCounter_init(cap).counts
    /\ stream = << >>
    /\ ret = [op |-> "init"]
    /\ HarnessIdle

\* for actor in stream: counter.process(actor), on each of the three counters
Feed(item, draw) ==
    /\ exact' = ExactCounter_process(exact, item)
    /\ morris' = MorrisCounter_process(morris, item, draw)
    /\ frequent' = FrequentCounter_process(frequent, capacity, item)
    /\ stream' = Append(stream, item)
    /\ ret' = [op |-> "process", item |-> item]
    /\ UNCHANGED <<capacity, harness>>

Process(item, draw) == Len(stream) < MaxLen /\ Feed(item, draw)
ProcessStream(item, draw) == Len(stream) < MaxStream /\ Feed(item, draw)

\* exact.query(item)
ExactQuery(item) ==
    /\ ret' = [op |-> "query", counter |-> "exact", item |-> item,
               result |-> ExactCounter_query(exact, item)]
    /\ UNCHANGED <<exact, morris, frequent, capacity, stream, harness>>

\* morris.query(item)
MorrisQuery(item) ==
    /\ ret' = [op |-> "query", counter |-> "morris", item |-> item,
               result |-> MorrisCounter_query(morris, item)]
    /\ UNCHANGED <<exact, morris, frequent, capacity, stream, harness>>

\* (mutant) self.counts[item] on a defaultdict(int): the lookup inserts the key
FrequentQuery_inserting(item) ==
    /\ ret' = [op |-> "query", counter |-> "frequent", item |-> item,
               result |-> FrequentCounter_query(frequent, item)]
    /\ frequent' = IF item \in DOMAIN frequent THEN frequent ELSE dict_set(frequent, item, 0)
    /\ UNCHANGED <<exact, morris, capacity, stream, harness>>
\* frequent.query(item)
FrequentQuery(item) ==
    /\ ret' = [op |-> "query", counter |-> "frequent", item |-> item,
               result |-> FrequentCounter_query(frequent, item)]
    /\ UNCHANGED <<exact, morris, frequent, capacity, stream, harness>>

\* whether the call before this one was the same get_top_n(n) on the same counter
Repeated(c, n) == ret.op = "get_top_n" /\ ret.counter = c /\ ret.n = n

\* exact.get_top_n(n)
ExactGetTopN(n) ==
    /\ ret' = [op |-> "get_top_n", counter |-> "exact", n |-> n,
               repeated |-> Repeated("exact", n),
               result |-> ExactCounter_get_top_n(exact, n)]
    /\ UNCHANGED <<exact, morris, frequent, capacity, stream, harness>>

\* (mutant) the estimates written back: self.counts[actor] = self.query(actor)
MorrisGetTopN_storing(n) ==
    /\ ret' = [op |-> "get_top_n", counter |-> "morris", n |-> n,
               repeated |-> Repeated("morris", n),
               result |-> MorrisCounter_get_top_n(morris, n)]
    /\ morris' = [actor \in DOMAIN morris |-> MorrisCounter_query(morris, actor)]
    /\ UNCHANGED <<exact, frequent, capacity, stream, harness>>
\* morris.get_top_n(n)
MorrisGetTopN(n) ==
    /\ ret' = [op |-> "get_top_n", counter |-> "morris", n |-> n,
               repeated |-> Repeated("morris", n),
               result |-> MorrisCounter_get_top_n(morris, n)]
    /\ UNCHANGED <<exact, morris, frequent, capacity, stream, harness>>

\* frequent.get_top_n(n)
FrequentGetTopN(n) ==
    /\ ret' = [op |-> "get_top_n", counter |-> "frequent", n |-> n,
               repeated |-> Repeated("frequent", n),
               result |-> FrequentCounter_get_top_n(frequent, n)]
    /\ UNCHANGED <<exact, morris, frequent, capacity, stream, harness>>

Next ==
    \/ \E item \in Items, draw \in Draws : Process(item, draw)
    \/ \E item \in Items : ExactQuery(item)
    \/ \E item \in Items : MorrisQuery(item)
    \/ \E item \in Items : FrequentQuery(item)
    \/ \E n \in NInputs : ExactGetTopN(n)
    \/ \E n \in NInputs : MorrisGetTopN(n)
    \/ \E n \in NInputs : FrequentGetTopN(n)

Spec == Init /\ [][Next]_vars

NextStream == \E item \in Items, draw \in Draws : ProcessStream(item, draw)

SpecStream == Init /\ [][NextStream]_vars

\* ------------------------------------------------- DatasetLoader (loader)
\* A row of the file: bad when csv.DictReader raises csv.Error on it, else its
\* cast column split on "," and stripped. The names "A", "B", "C" stand for
\* names that pass the four filters; "" stands for a token one of them drops
\* (empty, digits, one character, blocked name). A row with no cast is << >>.
RowInputs ==
    { [bad |-> TRUE, cast |-> << >>],
      [bad |-> FALSE, cast |-> << >>],
      [bad |-> FALSE, cast |-> <<"A">>],
      [bad |-> FALSE, cast |-> <<"B", "A">>],
      [bad |-> FALSE, cast |-> <<"C", "">>] }
Datasets == UNION {[1..n -> RowInputs] : n \in 0..MaxRows}

\* the tokens of a cast that reach "yield clean_name"
Kept(cast) == SelectSeq(cast, LAMBDA token : token \in Items)

\* stream_actors(): the items one full iteration yields, and whether it ends
\* by raising csv.Error (the except clause prints and re-raises)
RECURSIVE stream_actors(_)
stream_actors(rows) ==
    IF rows = << >> THEN [items |-> << >>, error |-> FALSE]
    ELSE IF Head(rows).bad THEN [items |-> << >>, error |-> TRUE]
    ELSE LET rest == stream_actors(Tail(rows))
         IN  [items |-> Kept(Head(rows).cast) \o rest.items, error |-> rest.error]

\* what self.file_path.open(...) does when the generator starts
OpenOutcomes == {"ok", "FileNotFoundError", "PermissionError"}
OpenStream(outcome) ==
    IF outcome = "ok"
    THEN gen' = "open" /\ stream' = << >> /\ UNCHANGED <<phase, raised>>
    ELSE phase' = "unhandled" /\ raised' = outcome /\ UNCHANGED <<gen, stream>>

\* ------------------------------------------------------------------- main
\* exact_map = {name: count for name, count in top_n_list}
ExactMap(top_n_list) ==
    [name \in {top_n_list[i][1] : i \in 1..Len(top_n_list)} |->
        top_n_list[CHOOSE i \in 1..Len(top_n_list) : top_n_list[i][1] = name][2]]

RECURSIVE SumSeq(_)
SumSeq(q) == IF q = << >> THEN 0 ELSE Head(q) + SumSeq(Tail(q))
MinSeq(q) == CHOOSE v \in {q[i] : i \in 1..Len(q)} : \A i \in 1..Len(q) : v <= q[i]
MaxSeq(q) == CHOOSE v \in {q[i] : i \in 1..Len(q)} : \A i \in 1..Len(q) : v >= q[i]
Abs(v) == IF v < 0 THEN -v ELSE v

\* the rows of [Table 1]; avg and rel_error are fractions <<numerator, denominator>>
Table1(results, top) ==
    [rank \in 1..Len(top) |->
        LET name == top[rank][1]
            real_count == top[rank][2]
            estimates == results[name]
        IN  [rank |-> rank, name |-> name, real |-> real_count,
             avg_est |-> <<SumSeq(estimates), Len(estimates)>>,
             min_est |-> MinSeq(estimates), max_est |-> MaxSeq(estimates),
             rel_error |-> IF real_count > 0
                           THEN <<100 * Abs(SumSeq(estimates) - Len(estimates) * real_count),
                                  Len(estimates) * real_count>>
                           ELSE <<0, 1>>]]

\* the rows of [Table 2]: one column per capacity, "-" for a count of 0
Table2(by_capacity, top) ==
    [rank \in 1..Len(top) |->
        [rank |-> rank, name |-> top[rank][1], real |-> top[rank][2],
         cols |-> [j \in 1..Len(FREQUENT_CAPACITIES) |->
                      LET estimated_count ==
                              FrequentCounter_query(by_capacity[FREQUENT_CAPACITIES[j]], top[rank][1])
                      IN  IF estimated_count > 0 THEN ToString(estimated_count) ELSE "-"]]]

\* the item the generator yields next
NextItem == stream_actors(data).items[Len(stream) + 1]
MoreItems == gen = "open" /\ Len(stream) < Len(stream_actors(data).items)
\* the generator has read every row without raising
Exhausted ==
    /\ gen = "open"
    /\ Len(stream) = Len(stream_actors(data).items)
    /\ ~stream_actors(data).error

\* (mutant) range(MORRIS_TRIALS + 1)
LastTrial_extra(done) == done = MORRIS_TRIALS + 1
\* for _ in range(MORRIS_TRIALS): the trial that just ended was the last
LastTrial(done) == done = MORRIS_TRIALS

\* (mutant) the counter of the trial before, kept
NewMorrisCounter_reused == morris
\* morris = MorrisCounter()
NewMorrisCounter == MorrisCounter_init

MainInit ==
    /\ exact = EmptyDict /\ morris = EmptyDict
    /\ frequent = EmptyDict /\ capacity = 0
    /\ stream = << >>
    /\ ret = [op |-> "init"]
    /\ phase = "start" /\ data \in Datasets /\ gen = "closed"
    /\ trial = 0 /\ cap_idx = 0
    /\ top_exact = << >> /\ morris_results = EmptyDict
    /\ results_by_capacity = EmptyDict
    /\ passes = << >> /\ table1 = << >> /\ table2 = << >>
    /\ printed = "" /\ raised = ""

\* loader = DatasetLoader(DATASET_PATH), FileNotFoundError caught
StartMain(exists) ==
    /\ phase = "start"
    /\ IF exists
       THEN phase' = "A" /\ UNCHANGED printed
       ELSE phase' = "aborted" /\ printed' = "CRITICAL ERROR: Dataset not found"
    /\ UNCHANGED <<exact, morris, frequent, capacity, stream, ret, data, gen, trial,
                   cap_idx, top_exact, morris_results, results_by_capacity, passes,
                   table1, table2, raised>>

\* run_exact_benchmark: exact_counter = ExactCounter(), the loop starts
BeginExactPass(outcome) ==
    /\ phase = "A" /\ gen = "closed"
    /\ exact' = ExactCounter_init
    /\ OpenStream(outcome)
    /\ UNCHANGED <<morris, frequent, capacity, ret, data, trial, cap_idx, top_exact,
                   morris_results, results_by_capacity, passes, table1, table2, printed>>

\* exact_counter.process(actor)
ExactPassItem ==
    /\ phase = "A" /\ MoreItems
    /\ exact' = ExactCounter_process(exact, NextItem)
    /\ stream' = Append(stream, NextItem)
    /\ ret' = [op |-> "process", item |-> NextItem]
    /\ UNCHANGED <<morris, frequent, capacity, harness>>

\* the loop ends: top_n_list, exact_map, then run_morris_experiment up to its loop
EndExactPass ==
    /\ phase = "A" /\ Exhausted
    /\ top_exact' = ExactCounter_get_top_n(exact, DISPLAY_TOP_N)
    /\ morris_results' = [name \in DOMAIN ExactMap(top_exact') |-> << >>]
    /\ passes' = Append(passes, [phase |-> "A", items |-> stream])
    /\ phase' = "B" /\ gen' = "closed"
    /\ UNCHANGED <<exact, morris, frequent, capacity, stream, ret, data, trial, cap_idx,
                   results_by_capacity, table1, table2, printed, raised>>

\* a trial: morris = MorrisCounter(), the loop starts
BeginMorrisTrial(outcome) ==
    /\ phase = "B" /\ gen = "closed"
    /\ morris' = NewMorrisCounter
    /\ OpenStream(outcome)
    /\ UNCHANGED <<exact, frequent, capacity, ret, data, trial, cap_idx, top_exact,
                   morris_results, results_by_capacity, passes, table1, table2, printed>>

\* morris.process(actor)
MorrisTrialItem(draw) ==
    /\ phase = "B" /\ MoreItems
    /\ morris' = MorrisCounter_process(morris, NextItem, draw)
    /\ stream' = Append(stream, NextItem)
    /\ ret' = [op |-> "process", item |-> NextItem]
    /\ UNCHANGED <<exact, frequent, capacity, harness>>

\* the trial's loop ends: the estimates are recorded; after the last trial
\* [Table 1] is printed and run_frequent_experiment starts
EndMorrisTrial ==
    /\ phase = "B" /\ Exhausted
    /\ morris_results' = [name \in DOMAIN morris_results |->
                             Append(morris_results[name], MorrisCounter_query(morris, name))]
    /\ trial' = trial + 1
    /\ passes' = Append(passes, [phase |-> "B", items |-> stream])
    /\ gen' = "closed"
    /\ IF LastTrial(trial + 1)
       THEN table1' = Table1(morris_results', top_exact) /\ phase' = "C"
       ELSE UNCHANGED <<table1, phase>>
    /\ UNCHANGED <<exact, morris, frequent, capacity, stream, ret, data, cap_idx,
                   top_exact, results_by_capacity, table2, printed, raised>>

\* a capacity: fc_algo = FrequentCounter(capacity=cap), the loop starts
BeginFrequentPass(outcome) ==
    /\ phase = "C" /\ gen = "closed"
    /\ capacity' = FrequentCounter_init(FREQUENT_CAPACITIES[cap_idx + 1]).capacity
    /\ frequent' = FrequentCounter_init(FREQUENT_CAPACITIES[cap_idx + 1]).counts
    /\ OpenStream(outcome)
    /\ UNCHANGED <<exact, morris, ret, data, trial, cap_idx, top_exact,
                   morris_results, results_by_capacity, passes, table1, table2, printed>>

\* fc_algo.process(actor)
FrequentPassItem ==
    /\ phase = "C" /\ MoreItems
    /\ frequent' = FrequentCounter_process(frequent, capacity, NextItem)
    /\ stream' = Append(stream, NextItem)
    /\ ret' = [op |-> "process", item |-> NextItem]
    /\ UNCHANGED <<exact, morris, capacity, harness>>

\* the capacity's loop ends: results_by_capacity[cap] = fc_algo; after the
\* last capacity the rows of [Table 2] are printed and main() returns
EndFrequentPass ==
    /\ phase = "C" /\ Exhausted
    /\ results_by_capacity' = dict_set(results_by_capacity, capacity, frequent)
    /\ cap_idx' = cap_idx + 1
    /\ passes' = Append(passes, [phase |-> "C", items |-> stream])
    /\ gen' = "closed"
    /\ IF cap_idx + 1 = Len(FREQUENT_CAPACITIES)
       THEN table2' = Table2(results_by_capacity', top_exact) /\ phase' = "done"
       ELSE UNCHANGED <<table2, phase>>
    /\ UNCHANGED <<exact, morris, frequent, capacity, stream, ret, data, trial,
                   top_exact, morris_results, table1, printed, raised>>

\* the reader raises csv.Error on a row: stream_actors prints and re-raises,
\* and no caller up to main() catches it
CsvError ==
    /\ phase \in {"A", "B", "C"}
    /\ gen = "open"
    /\ Len(stream) = Len(stream_actors(data).items)
    /\ stream_actors(data).error
    /\ printed' = "Error reading CSV file"
    /\ raised' = "csv.Error"
    /\ phase' = "unhandled"
    /\ UNCHANGED <<exact, morris, frequent, capacity, stream, ret, data, gen, trial,
                   cap_idx, top_exact, morris_results, results_by_capacity, passes,
                   table1, table2>>

NextMain ==
    \/ \E exists \in BOOLEAN : StartMain(exists)
    \/ \E outcome \in OpenOutcomes : BeginExactPass(outcome)
    \/ ExactPassItem
    \/ EndExactPass
    \/ \E outcome \in OpenOutcomes : BeginMorrisTrial(outcome)
    \/ \E draw \in Draws : MorrisTrialItem(draw)
    \/ EndMorrisTrial
    \/ \E outcome \in OpenOutcomes : BeginFrequentPass(outcome)
    \/ FrequentPassItem
    \/ EndFrequentPass
    \/ CsvError

SpecMain == MainInit /\ [][NextMain]_vars

\* ------------------------------------------------------ what the claims read
\* the number of positions of the stream holding exactly x
Occurrences(x) == Cardinality({i \in 1..Len(stream) : stream[i] = x})
\* the distinct items seen
Seen == {stream[i] : i \in 1..Len(stream)}
\* the sum of the counts of all tracked items
RECURSIVE SumCounts(_)
SumCounts(counts) ==
    IF DOMAIN counts = {} THEN 0
    ELSE LET k == CHOOSE x \in DOMAIN counts : TRUE
         IN  counts[k] + SumCounts([y \in DOMAIN counts \ {k} |-> counts[y]])

\* FrequentCounter(capacity).counts after the first i items of the stream
RECURSIVE FrequentAfter(_)
FrequentAfter(i) ==
    IF i = 0 THEN FrequentCounter_init(capacity).counts
    ELSE FrequentCounter_process(FrequentAfter(i - 1), capacity, stream[i])
\* the i-th process call took CASE 3: item not tracked, no room
GlobalDecrementAt(i) ==
    /\ stream[i] \notin DOMAIN FrequentAfter(i - 1)
    /\ ~(Cardinality(DOMAIN FrequentAfter(i - 1)) < capacity)
\* the number of times the counter of x was decremented (line 35 ran for key x)
Decremented(x) ==
    Cardinality({i \in 1..Len(stream) :
                    GlobalDecrementAt(i) /\ x \in DOMAIN FrequentAfter(i - 1)})
\* the number of occurrences of x that arrived in CASE 3 and were not counted
Dropped(x) ==
    Cardinality({i \in 1..Len(stream) : GlobalDecrementAt(i) /\ stream[i] = x})

\* D: the number of process calls so far that took CASE 3
GlobalDecrements == Cardinality({i \in 1..Len(stream) : GlobalDecrementAt(i)})

\* self.counts of the counter a call was made on
CountsOf(c) ==
    CASE c = "exact" -> exact [] c = "morris" -> morris [] c = "frequent" -> frequent
\* query(x) of that counter
QueryOf(c, x) ==
    CASE c = "exact" -> ExactCounter_query(exact, x)
      [] c = "morris" -> MorrisCounter_query(morris, x)
      [] c = "frequent" -> FrequentCounter_query(frequent, x)

\* ------------------------------------------------------------------ claims
\* C1: fed the same stream, a FrequentCounter of capacity >= 1 never returns
\* more than the ExactCounter, for any item, after any prefix of the stream.
C1_NeverOverestimates ==
    capacity >= 1 =>
        \A x \in Items :
            FrequentCounter_query(frequent, x) <= ExactCounter_query(exact, x)
\* a decrement has lowered one item below its exact count, another is exact
C1_Witness ==
    /\ capacity >= 1
    /\ \E x \in Items :
          /\ FrequentCounter_query(frequent, x) > 0
          /\ FrequentCounter_query(frequent, x) < ExactCounter_query(exact, x)
    /\ \E y \in Items : y \in Seen /\ y \notin DOMAIN frequent

\* C2: Misra-Gries bound. With capacity k >= 1 and N items processed, every
\* item that occurs more than N / (k + 1) times is tracked with a count > 0.
C2_MisraGries ==
    capacity >= 1 =>
        \A x \in Items :
            Occurrences(x) * (capacity + 1) > Len(stream)
                => /\ x \in DOMAIN frequent
                   /\ FrequentCounter_query(frequent, x) > 0
\* a heavy item that decrements have hit, yet is still tracked
C2_Witness ==
    /\ capacity >= 1
    /\ \E x \in Items :
          /\ Occurrences(x) * (capacity + 1) > Len(stream)
          /\ FrequentCounter_query(frequent, x) < Occurrences(x)
    /\ \E y \in Items : y \in Seen /\ y \notin DOMAIN frequent

\* C4: ExactCounter.query(x) is the number of occurrences of x in the
\* stream, and the keys are exactly the distinct items seen.
C4_ExactIsExact ==
    /\ \A x \in Items : ExactCounter_query(exact, x) = Occurrences(x)
    /\ DOMAIN exact = Seen
\* the stream A A B A C B gives A=3, B=2, C=1
C4_Witness ==
    /\ stream = <<"A", "A", "B", "A", "C", "B">>
    /\ ExactCounter_query(exact, "A") = 3
    /\ ExactCounter_query(exact, "B") = 2
    /\ ExactCounter_query(exact, "C") = 1

\* C5: the first process(x) of an item x the MorrisCounter has never seen
\* leaves x with exponent 1 and query(x) = 1, whatever the random draw; no
\* tracked item has exponent 0.
C5_FirstSightIsOne ==
    [][\A x \in Items :
          (x \notin DOMAIN morris /\ stream' = Append(stream, x))
              => /\ x \in DOMAIN morris'
                 /\ morris'[x] = 1
                 /\ MorrisCounter_query(morris', x) = 1
                 /\ \A y \in DOMAIN morris' : morris'[y] >= 1]_vars
\* an item seen once has exponent 1 while another, seen three times, was
\* refused an increment by some draw
C5_Witness ==
    \E x, y \in Items :
        /\ Occurrences(x) = 1 /\ x \in DOMAIN morris /\ morris[x] = 1
        /\ MorrisCounter_query(morris, x) = 1
        /\ Occurrences(y) = 3 /\ morris[y] = 2

\* C6: the counts of the tracked items of a FrequentCounter sum to at most
\* the number of process calls made.
C6_SumAtMostLength == SumCounts(frequent) <= Len(stream)
\* the sum has fallen strictly below the stream length, with items tracked
C6_Witness ==
    /\ capacity >= 1
    /\ DOMAIN frequent # {}
    /\ SumCounts(frequent) < Len(stream)
    /\ Len(stream) = MaxStream

\* C3: a FrequentCounter of capacity k >= 1 tracks at most k items, in every
\* state reached by process, query and get_top_n calls.
C3_AtMostCapacity ==
    capacity >= 1 => Cardinality(DOMAIN frequent) <= capacity
\* the table is full after an eviction, and a read call has just returned
C3_Witness ==
    /\ capacity >= 1
    /\ Cardinality(DOMAIN frequent) = capacity
    /\ \E y \in Seen : y \notin DOMAIN frequent
    /\ ret.op \in {"query", "get_top_n"}

\* pair a ranks strictly higher than pair b: greater count, or equal count and
\* smaller item
RanksAbove(a, b) == a[2] > b[2] \/ (a[2] = b[2] /\ Ord(a[1]) < Ord(b[1]))

\* C7: on each counter get_top_n(n), n >= 0, returns min(n, tracked) pairs
\* (item, query(item)) of distinct tracked items, by count descending and
\* item ascending on ties, and every tracked item left out ranks below the
\* last pair returned.
C7_TopN ==
    (ret.op = "get_top_n" /\ ret.n >= 0) =>
        LET r == ret.result
            tracked == DOMAIN CountsOf(ret.counter)
            returned == {r[i][1] : i \in 1..Len(r)}
        IN  /\ Len(r) = IF ret.n < Cardinality(tracked) THEN ret.n ELSE Cardinality(tracked)
            /\ \A i \in 1..Len(r) :
                  /\ r[i][1] \in tracked
                  /\ r[i][2] = QueryOf(ret.counter, r[i][1])
            /\ \A i, j \in 1..Len(r) : i < j => r[i][1] # r[j][1]
            /\ \A i, j \in 1..Len(r) : i < j => RanksAbove(r[i], r[j])
            /\ \A x \in tracked \ returned :
                  Len(r) > 0 => RanksAbove(r[Len(r)], <<x, QueryOf(ret.counter, x)>>)
\* two pairs returned that tie on the count, and a third tracked item left out
C7_Witness ==
    /\ ret.op = "get_top_n"
    /\ ret.n = 2
    /\ Len(ret.result) = 2
    /\ Cardinality(DOMAIN CountsOf(ret.counter)) = 3
    /\ ret.result[1][2] = ret.result[2][2]

\* C8: get_top_n changes no counter, and the same call made twice in a row
\* returns the same sequence; no read call (query or get_top_n) made in
\* between changes a counter either.
C8_TopNReadOnly ==
    [][/\ ret'.op \in {"query", "get_top_n"} => counters' = counters
       /\ ret'.op = "get_top_n" =>
             /\ counters' = counters
             /\ ret'.repeated => ret'.result = ret.result]_vars
\* a get_top_n call that repeats the call before it and returns two pairs
C8_Witness ==
    /\ ret.op = "get_top_n"
    /\ ret.repeated
    /\ Len(ret.result) >= 2

\* C9: query(x) for an item never processed, or processed and no longer
\* tracked by the FrequentCounter, returns 0, changes no counter and does not
\* insert x.
C9_UnknownIsZero ==
    [][(/\ ret'.op = "query"
        /\ \/ ret'.item \notin Seen
           \/ ret'.counter = "frequent" /\ ret'.item \notin DOMAIN frequent)
          => /\ ret'.result = 0
             /\ counters' = counters
             /\ \A c \in {"exact", "morris", "frequent"} :
                   ret'.counter = c => ret'.item \notin DOMAIN CountsOf(c)']_vars
\* the FrequentCounter asked about an item it has evicted
C9_Witness ==
    /\ ret.op = "query"
    /\ ret.counter = "frequent"
    /\ capacity >= 1
    /\ ret.item \in Seen
    /\ ret.item \notin DOMAIN frequent
    /\ ret.result = 0

\* C10: a FrequentCounter with a capacity <= 0 is rejected at construction,
\* so none exists and process never runs on one.
C10_NonPositiveCapacityRejected ==
    stream # << >> => capacity >= 1

\* C11: no step lowers a MorrisCounter exponent or removes an item;
\* process(x) raises the exponent of x by 0 or by 1 and leaves every other
\* item as it was; query(x) never decreases.
C11_ExponentMonotonic ==
    [][/\ \A x \in DOMAIN morris : x \in DOMAIN morris' /\ morris'[x] >= morris[x]
       /\ \A x \in Items :
             stream' = Append(stream, x) =>
                 /\ morris'[x] - dict_get(morris, x, 0) \in {0, 1}
                 /\ DOMAIN morris' = DOMAIN morris \cup {x}
                 /\ \A y \in DOMAIN morris \ {x} : morris'[y] = morris[y]
       /\ \A x \in Items :
             MorrisCounter_query(morris', x) >= MorrisCounter_query(morris, x)]_vars
\* one item was raised on both of its occurrences, another was refused once
C11_Witness ==
    \E x, y \in Items :
        /\ x # y
        /\ Occurrences(x) = 2 /\ morris[x] = 2
        /\ Occurrences(y) = 2 /\ morris[y] = 1

\* C12: MorrisCounter.query(x) returns 2^k - 1 for the stored exponent k and 0
\* for an untracked x; for a processed item the value is one of 1, 3, 7, 15, ...
C12_QueryIsPowerMinusOne ==
    (ret.op = "query" /\ ret.counter = "morris") =>
        /\ ret.item \in DOMAIN morris => ret.result = 2 ^ morris[ret.item] - 1
        /\ ret.item \notin DOMAIN morris => ret.result = 0
        /\ ret.item \in Seen => \E k \in 1..Len(stream) : ret.result = 2 ^ k - 1
\* a query answered 7 while another item, seen once, has exponent 1
C12_Witness ==
    /\ ret.op = "query"
    /\ ret.counter = "morris"
    /\ ret.result = 7
    /\ \E y \in Items : Occurrences(y) = 1 /\ morris[y] = 1

\* C13: between process calls every item a FrequentCounter tracks has a
\* count >= 1: no item stays tracked with a count of 0 or less.
C13_TrackedCountsPositive ==
    \A x \in DOMAIN frequent : frequent[x] >= 1
\* capacity 2 over A A B C: the decrement deleted B at 0 and kept A at 1
C13_Witness ==
    /\ capacity = 2
    /\ stream = <<"A", "A", "B", "C">>
    /\ DOMAIN frequent = {"A"}
    /\ frequent["A"] = 1

\* C18: process(x) with x untracked and the table full lowers every tracked
\* count by exactly 1, removes those that reach 0, adds no item and leaves x
\* untracked; process(x) with x tracked only increments x, full table or not.
\* Capacity 2 over A A B C A ends with A=2, B=0, C=0.
C18_GlobalDecrementStep ==
    /\ [][\A x \in Items :
             stream' = Append(stream, x) =>
                 /\ (x \notin DOMAIN frequent /\ Cardinality(DOMAIN frequent) = capacity) =>
                       /\ DOMAIN frequent' = {y \in DOMAIN frequent : frequent[y] > 1}
                       /\ \A y \in DOMAIN frequent' : frequent'[y] = frequent[y] - 1
                       /\ x \notin DOMAIN frequent'
                       /\ FrequentCounter_query(frequent', x) = 0
                 /\ x \in DOMAIN frequent =>
                       /\ DOMAIN frequent' = DOMAIN frequent
                       /\ frequent'[x] = frequent[x] + 1
                       /\ \A y \in DOMAIN frequent \ {x} : frequent'[y] = frequent[y]]_vars
    /\ []((capacity = 2 /\ stream = <<"A", "A", "B", "C", "A">>) =>
            /\ FrequentCounter_query(frequent, "A") = 2
            /\ FrequentCounter_query(frequent, "B") = 0
            /\ FrequentCounter_query(frequent, "C") = 0)
\* the scenario's end state
C18_Witness ==
    /\ capacity = 2
    /\ stream = <<"A", "A", "B", "C", "A">>
    /\ DOMAIN frequent = {"A"}
    /\ frequent["A"] = 2

C14_SourceFailureReported ==
    /\ raised \notin {"FileNotFoundError", "PermissionError"}
    /\ phase = "aborted" => printed # ""

\* the kept items of every row the reader can parse
RECURSIVE WellFormedItems(_)
WellFormedItems(rows) ==
    IF rows = << >> THEN << >>
    ELSE (IF Head(rows).bad THEN << >> ELSE Kept(Head(rows).cast))
         \o WellFormedItems(Tail(rows))

\* C15 as claimed: a row that cannot be parsed is skipped and the stream goes
\* on: an iteration ends, by exhaustion or by an exception, only after the
\* items of every well-formed row were yielded.
C15_MalformedRowSkipped ==
    /\ raised = "csv.Error" => stream = WellFormedItems(data)
    /\ \A i \in 1..Len(passes) : passes[i].items = WellFormedItems(data)

\* the passes of a complete run, in order
ExpectedPasses ==
    <<"A">> \o [i \in 1..MORRIS_TRIALS |-> "B"]
            \o [i \in 1..Len(FREQUENT_CAPACITIES) |-> "C"]

\* C16: a run that completes has iterated the stream in full exactly
\* 1 + trials + |capacities| times, one pass for Phase A, then the trials of
\* Phase B, then one pass per capacity; Phase B runs only after the Phase A
\* pass and Phase C only after every trial.
C16_PassesInOrder ==
    /\ Len(passes) <= Len(ExpectedPasses)
    /\ \A i \in 1..Len(passes) :
          /\ passes[i].phase = ExpectedPasses[i]
          /\ passes[i].items = stream_actors(data).items
    /\ phase = "A" => Len(passes) = 0
    /\ phase = "B" => Len(passes) = 1 + trial /\ trial < MORRIS_TRIALS
    /\ phase = "C" => Len(passes) = 1 + MORRIS_TRIALS + cap_idx
    /\ phase = "done" =>
          /\ Len(passes) = 1 + MORRIS_TRIALS + Len(FREQUENT_CAPACITIES)
          /\ [i \in 1..Len(passes) |-> passes[i].phase] = ExpectedPasses
\* a complete run over a stream of three items or more
C16_Witness ==
    /\ phase = "done"
    /\ Len(stream_actors(data).items) >= 3
    /\ Len(passes) = 1 + MORRIS_TRIALS + Len(FREQUENT_CAPACITIES)

\* the occurrences of x among the items one iteration yields
OccurrencesInData(x) ==
    Cardinality({i \in 1..Len(stream_actors(data).items) : stream_actors(data).items[i] = x})

\* C19: each trial's MorrisCounter and each capacity's FrequentCounter starts
\* empty when its pass starts, holds exactly the items of the pass so far,
\* and is read only when the pass has yielded the whole stream; after Phase B
\* every baseline top-N item has one estimate per trial, and both tables have
\* one row per baseline top-N item, in baseline rank order.
C19_FreshCounterPerPass ==
    /\ [][/\ (gen = "closed" /\ gen' = "open" /\ phase = "B") => morris' = EmptyDict
          /\ (gen = "closed" /\ gen' = "open" /\ phase = "C") =>
                /\ frequent' = EmptyDict
                /\ capacity' = FREQUENT_CAPACITIES[cap_idx + 1]
          /\ morris_results' # morris_results =>
                /\ gen = "open" /\ stream = stream_actors(data).items
                /\ phase = "B" =>
                      \A name \in DOMAIN morris_results :
                          /\ Len(morris_results'[name]) = Len(morris_results[name]) + 1
                          /\ morris_results'[name][trial + 1] = 2 ^ morris[name] - 1
          /\ results_by_capacity' # results_by_capacity =>
                /\ gen = "open" /\ stream = stream_actors(data).items
                /\ capacity \notin DOMAIN results_by_capacity
                /\ results_by_capacity' = dict_set(results_by_capacity, capacity, frequent)]_vars
    /\ []((phase = "B" /\ gen = "open") =>
            /\ DOMAIN morris = Seen
            /\ \A x \in Seen : morris[x] >= 1 /\ morris[x] <= Occurrences(x))
    /\ []((phase = "C" /\ gen = "open") => frequent = FrequentAfter(Len(stream)))
    /\ [](phase \in {"B", "C", "done"} =>
            /\ DOMAIN morris_results = {top_exact[i][1] : i \in 1..Len(top_exact)}
            /\ \A name \in DOMAIN morris_results :
                  /\ Len(morris_results[name]) = IF phase = "B" THEN trial ELSE MORRIS_TRIALS
                  /\ \A t \in 1..Len(morris_results[name]) :
                        \E k \in 1..OccurrencesInData(name) :
                            morris_results[name][t] = 2 ^ k - 1)
    /\ [](phase \in {"C", "done"} =>
            /\ Len(table1) = Len(top_exact)
            /\ \A i \in 1..Len(top_exact) :
                  table1[i].rank = i /\ table1[i].name = top_exact[i][1])
    /\ [](phase = "done" =>
            /\ Len(table2) = Len(top_exact)
            /\ DOMAIN results_by_capacity =
                   {FREQUENT_CAPACITIES[j] : j \in 1..Len(FREQUENT_CAPACITIES)}
            /\ \A i \in 1..Len(top_exact) :
                  table2[i].rank = i /\ table2[i].name = top_exact[i][1])
\* a complete run with two baseline items whose trials gave different estimates
C19_Witness ==
    /\ phase = "done"
    /\ Len(top_exact) = DISPLAY_TOP_N
    /\ \E name \in DOMAIN morris_results :
          /\ Len(morris_results[name]) = MORRIS_TRIALS
          /\ morris_results[name][1] # morris_results[name][MORRIS_TRIALS]
    /\ \E cap \in DOMAIN results_by_capacity : results_by_capacity[cap] # EmptyDict

\* C21: conservation. For a FrequentCounter of capacity k >= 1, after N process
\* calls of which D took the global-decrement branch, the sum of the tracked
\* counts plus (k + 1) * D equals N; so D <= N / (k + 1), and for every item x
\* ExactCounter.query(x) - FrequentCounter.query(x) is at most D.
C21_Conservation ==
    capacity >= 1 =>
        /\ SumCounts(frequent) + (capacity + 1) * GlobalDecrements = Len(stream)
        /\ GlobalDecrements * (capacity + 1) <= Len(stream)
        /\ \A x \in Items :
              ExactCounter_query(exact, x) - FrequentCounter_query(frequent, x)
                  <= GlobalDecrements
\* two global decrements, something still tracked, one item that lost a count
\* at each of them and one that lost fewer
C21_Witness ==
    /\ capacity >= 1
    /\ GlobalDecrements >= 2
    /\ DOMAIN frequent # {}
    /\ \E x, y \in Seen :
          /\ ExactCounter_query(exact, x) - FrequentCounter_query(frequent, x)
                 = GlobalDecrements
          /\ ExactCounter_query(exact, y) - FrequentCounter_query(frequent, y)
                 < GlobalDecrements

\* C22: when the capacity of the FrequentCounter is at least the number of
\* distinct items of the stream, no process call took the global-decrement
\* branch, and the FrequentCounter and the ExactCounter hold the same map: the
\* same query(x) for every x and the same get_top_n(n) for every n.
C22_ExactWhenRoomForAll ==
    capacity >= Cardinality(Seen) =>
        /\ \A i \in 1..Len(stream) : ~GlobalDecrementAt(i)
        /\ frequent = exact
        /\ \A x \in Items :
              FrequentCounter_query(frequent, x) = ExactCounter_query(exact, x)
        /\ \A n \in NInputs :
              FrequentCounter_get_top_n(frequent, n) = ExactCounter_get_top_n(exact, n)
\* the table is exactly full, with two or more items, and items have repeated
C22_Witness ==
    /\ capacity = Cardinality(Seen)
    /\ capacity >= 2
    /\ Len(stream) >= capacity + 2
    /\ \E x \in Seen : FrequentCounter_query(frequent, x) >= 2

====
